---- MODULE Spec2Model ----
(***************************************************************************)
(* Model of internal/server/acme/acme.go: certificateNeedsUpdate and       *)
(* UpdateCertificate.                                                      *)
(*                                                                         *)
(* One invocation of UpdateCertificate is a process that walks through the *)
(* statements of the function.  The files it touches (the cluster buffer   *)
(* cluster.crt.new, cluster.key, the server certificate), the temporary    *)
(* directories, the clock, the ACME CA and the lego subprocess are the     *)
(* environment: every call into them draws its outcome from the outcomes   *)
(* the call can have.                                                      *)
(*                                                                         *)
(* Time is counted in days.                                                *)
(***************************************************************************)
EXTENDS Integers, Sequences, FiniteSets, TLC

\* ------------------------------------------------------------------ bounds
\* The clock takes the values 0..MaxNow.
MaxNow == 1
\* Certificates on disk expire at ThirtyDays .. ThirtyDays + MaxSlack.
MaxSlack == 1
\* certificateNeedsUpdate alone is applied at the times 0..MaxProbe to
\* certificates that expire at 0..MaxProbe or ThirtyDays..ThirtyDays + MaxProbe.
MaxProbe == 3

\* --------------------------------------------------------- program constants
retries_OffByOne == 5 + 1

\* const retries = 5
retries == 5
\* cert.NotAfter.Add(-30*24*time.Hour)
ThirtyDays == 30
\* config.CADirURL = "https://acme-v02.api.letsencrypt.org/directory"
LetsEncryptURL == "https://acme-v02.api.letsencrypt.org/directory"
\* details.Type == "urn:ietf:params:acme:error:rateLimited"
RateLimitedType == "urn:ietf:params:acme:error:rateLimited"

\* ------------------------------------------------------------ input domains
Procs == {1, 2}
Domains == {"a.example.com", "b.example.com"}
ChallengeTypes == {"HTTP-01", "DNS-01"}
CAURLs == {"", "https://ca.example/dir"}
DNSProviders == {"", "dummy"}
Times == 0..MaxNow
NotAfters == ThirtyDays..(ThirtyDays + MaxSlack)

\* The DNS names of the certificates on disk: issued for a.example.com, alone or
\* together with b.example.com.  Either domain may be requested.
CertNames == {{"a.example.com"}, {"a.example.com", "b.example.com"}}
\* An x509 certificate, as far as the code looks at it: DNSNames and NotAfter.
Certs == [DNSNames : CertNames, NotAfter : NotAfters]
NoCert == [DNSNames |-> {}, NotAfter |-> 0]

\* The bytes of a certificate file.  "pem" holds a certificate; "garbage"
\* makes no key pair with the key (tls.X509KeyPair fails); "unparsable" is
\* rejected by x509.ParseCertificate.
PemFile(c) == [form |-> "pem", cert |-> c]
BadFile(f) == [form |-> f, cert |-> NoCert]
NoBytes == BadFile("none")

\* cluster.crt.new: absent, present but unreadable, or present with bytes.
ClusterCertFiles ==
    {[exists |-> FALSE, readable |-> FALSE, bytes |-> NoBytes],
     [exists |-> TRUE, readable |-> FALSE, bytes |-> NoBytes]}
    \cup {[exists |-> TRUE, readable |-> TRUE, bytes |-> b] :
            b \in {BadFile("garbage"), BadFile("unparsable")}
                  \cup {PemFile(c) : c \in Certs}}
\* cluster.key: readable or not.
ClusterKeyFiles == {"ok", "unreadable"}
\* server.crt / server.key as internalUtil.LoadCert sees them.
ServerCerts ==
    {[loads |-> FALSE, bytes |-> NoBytes],
     [loads |-> TRUE, bytes |-> BadFile("unparsable")]}
    \cup {[loads |-> TRUE, bytes |-> PemFile(c)] : c \in Certs}

\* Errors of the CA, classified as the code classifies them.
OtherType == "urn:ietf:params:acme:error:serverInternal"
NoErr == [isNil |-> TRUE, problemDetails |-> FALSE, type |-> ""]
RateLimitedErr == [isNil |-> FALSE, problemDetails |-> TRUE, type |-> RateLimitedType]
OtherProblemErr == [isNil |-> FALSE, problemDetails |-> TRUE, type |-> OtherType]
PlainErr == [isNil |-> FALSE, problemDetails |-> FALSE, type |-> ""]
CAOutcomes == {NoErr, RateLimitedErr, OtherProblemErr, PlainErr}

VARIABLES
    now,              \* time.Now(), in days
    clusterCertFile,  \* VarPath("cluster.crt.new")
    clusterKeyFile,   \* VarPath("cluster.key")
    serverCert,       \* what LoadCert(s.OS.VarDir) finds
    tmpDirs,          \* invocations whose os.MkdirTemp directory is on disk
    pc,               \* position of each invocation in UpdateCertificate
    args,             \* arguments of each invocation
    frame,            \* local variables of each invocation
    ret,              \* what each invocation returned
    world,            \* what each invocation did to the CA and the system
    probe,            \* one application of certificateNeedsUpdate
    cancelled         \* invocations whose caller has signalled cancellation

vars == <<now, clusterCertFile, clusterKeyFile, serverCert, tmpDirs,
          pc, args, frame, ret, world, probe, cancelled>>

\* --------------------------------------------------------- pure functions
certificateNeedsUpdate_OrForAnd(domain, cert, t) ==
    ~(domain \in cert.DNSNames) /\ t > cert.NotAfter - ThirtyDays

certificateNeedsUpdate_AfterOrEqual(domain, cert, t) ==
    ~(domain \in cert.DNSNames) \/ t >= cert.NotAfter - ThirtyDays

certificateNeedsUpdate_Before(domain, cert, t) ==
    ~(domain \in cert.DNSNames) \/ t < cert.NotAfter - ThirtyDays

\* !slices.Contains(cert.DNSNames, domain) ||
\*     time.Now().After(cert.NotAfter.Add(-30*24*time.Hour))
\* t is the value time.Now() returns.
certificateNeedsUpdate(domain, cert, t) ==
    ~(domain \in cert.DNSNames) \/ t > cert.NotAfter - ThirtyDays

\* ok && details.Type == "urn:ietf:params:acme:error:rateLimited"
IsRateLimited_Never(err) == FALSE

IsRateLimited(err) ==
    err.problemDetails /\ err.type = RateLimitedType

\* !force && clustered && util.PathExists(clusterCertFilename)
UseBuffer_Never(a, exists) == FALSE

UseBuffer_IgnoreForce(a, exists) == a.clustered /\ exists

UseBuffer_IgnoreClustered(a, exists) == ~a.force /\ exists

UseBuffer(a, exists) ==
    ~a.force /\ a.clustered /\ exists

\* !force && !certificateNeedsUpdate(domain, cert)
SkipRenewal_IgnoreForce(a, cert, t) ==
    ~certificateNeedsUpdate(a.domain, cert, t)

SkipRenewal(a, cert, t) ==
    ~a.force /\ ~certificateNeedsUpdate(a.domain, cert, t)

\* provider == ""
ProviderMissing_Never(provider) == FALSE

ProviderMissing(provider) == provider = ""

\* if caURL != "" { config.CADirURL = caURL } else { Let's Encrypt }
CADirURL(caURL) ==
    IF caURL # "" THEN caURL ELSE LetsEncryptURL

\* "--server", caURL
LegoServerArg(caURL) == caURL

\* The certificate the CA (or lego) issues for one domain.
IssuedBytes(domain) ==
    PemFile([DNSNames |-> {domain}, NotAfter |-> ThirtyDays + MaxSlack])

\* ------------------------------------------------------------ initial state
Args == [challengeType : ChallengeTypes, clustered : BOOLEAN, domain : Domains,
         caURL : CAURLs, force : BOOLEAN]
NoArgs == [challengeType |-> "", clustered |-> FALSE, domain |-> "",
           caURL |-> "", force |-> FALSE]

\* Local variables of UpdateCertificate before its first statement.
NewFrame ==
    [clusterCert |-> NoBytes,   \* clusterCert, line 57
     key         |-> "",        \* key, line 62
     bufCert     |-> NoCert,    \* cert, line 72 (scope of the if at line 54)
     cert        |-> NoCert,    \* cert, line 95
     certInfo    |-> NoBytes,   \* certInfo, lines 90 and 146
     provider    |-> "unset",   \* provider, line 106 (not yet declared)
     tmpDir      |-> FALSE,     \* tmpDir, line 112: the deferred removal is armed
     privateKey  |-> FALSE,     \* privateKey, line 158
     CADirURL    |-> "",        \* config.CADirURL, lines 170-175
     i           |-> 0,         \* loop variable, lines 192 and 226
     err         |-> NoErr,     \* err
     reg         |-> FALSE]     \* user.Registration, line 212

\* What an invocation has done outside its own frame.
NewWorld ==
    [sawBuffer   |-> FALSE,  \* util.PathExists returned true at line 54
     removes     |-> 0,      \* os.Remove(clusterCertFilename) calls
     removeFailed |-> FALSE, \* os.Remove returned an error
     mkdirs      |-> 0,      \* os.MkdirTemp calls
     legoRuns    |-> 0,      \* runs of the lego subprocess
     legoServer  |-> "",     \* its --server argument
     removeAlls  |-> 0,      \* os.RemoveAll(tmpDir) calls
     removeAllFailed |-> FALSE,
     keyGens     |-> 0,      \* ecdsa.GenerateKey calls
     clients     |-> 0,      \* lego.NewClient calls
     regAttempts |-> 0,      \* client.Registration.Register calls
     regSleeps   |-> 0,      \* time.Sleep calls of the registration loop
     obtAttempts |-> 0,      \* client.Certificate.Obtain calls
     obtSleeps   |-> 0,      \* time.Sleep calls of the issuance loop
     obtDomains  |-> {},     \* request.Domains
     obtKey      |-> "",     \* request.PrivateKey
     overlapped  |-> FALSE]  \* another invocation ran during this one

NoRet == [kind |-> "none", Certificate |-> NoBytes, PrivateKey |-> "",
          msg |-> "", cause |-> NoErr]
NilRet == [NoRet EXCEPT !.kind = "nil"]
Resource(certBytes, keyName) ==
    [NoRet EXCEPT !.kind = "resource", !.Certificate = certBytes,
                  !.PrivateKey = keyName]
\* fmt.Errorf(msg + ": %w", cause)
Error(m, c) == [NoRet EXCEPT !.kind = "error", !.msg = m, !.cause = c]

\* One call certificateNeedsUpdate(domain, cert) at time t.
ProbeCerts == [DNSNames : SUBSET Domains,
               NotAfter : (0..MaxProbe) \cup (ThirtyDays..(ThirtyDays + MaxProbe))]
Probes == [domain : Domains, cert : ProbeCerts, t : 0..MaxProbe,
           applied : {FALSE}, result : {FALSE}]
NoProbe == [domain |-> "", cert |-> NoCert, t |-> 0, applied |-> FALSE,
            result |-> FALSE]

Init ==
    /\ now \in Times
    /\ clusterCertFile \in ClusterCertFiles
    /\ clusterKeyFile \in ClusterKeyFiles
    /\ serverCert \in ServerCerts
    /\ tmpDirs = {}
    /\ pc = [p \in Procs |-> "idle"]
    /\ args = [p \in Procs |-> NoArgs]
    /\ frame = [p \in Procs |-> NewFrame]
    /\ ret = [p \in Procs |-> NoRet]
    /\ world = [p \in Procs |-> NewWorld]
    /\ probe = NoProbe
    /\ cancelled = {}

\* ------------------------------------------------------------------ helpers
Goto(p, l) == pc' = [pc EXCEPT ![p] = l]

\* return r, with no deferred call pending.
Return(p, r) ==
    /\ pc' = [pc EXCEPT ![p] = "returned"]
    /\ ret' = [ret EXCEPT ![p] = r]

ReturnDeferred_NotOnError(p, r) ==
    /\ pc' = [pc EXCEPT ![p] = IF r.kind = "error" THEN "returned" ELSE "defer"]
    /\ ret' = [ret EXCEPT ![p] = r]

\* return r after the defer of lines 117-122 has been registered: the
\* deferred function runs before the function returns.
ReturnDeferred(p, r) ==
    /\ pc' = [pc EXCEPT ![p] = "defer"]
    /\ ret' = [ret EXCEPT ![p] = r]

Files == <<clusterCertFile, clusterKeyFile, serverCert>>

\* ------------------------------------------------------------ the clock
\* time.Now() advances.  The unit is a day and one invocation lasts minutes,
\* so the clock is taken to advance between invocations.
Tick ==
    /\ now < MaxNow
    /\ \A p \in Procs : pc[p] = "idle"
    /\ now' = now + 1
    /\ UNCHANGED <<clusterCertFile, clusterKeyFile, serverCert, tmpDirs,
                   pc, args, frame, ret, world, probe, cancelled>>

\* Invocation p has been called and has not returned yet.
InFlight(p) == pc[p] \notin {"idle", "returned"}

\* ------------------------------------------------- UpdateCertificate, entry
\* A caller invokes UpdateCertificate(s, challengeType, provider, clustered,
\* domain, email, caURL, force).
Enter(p, a) ==
    /\ pc[p] = "idle"
    /\ args' = [args EXCEPT ![p] = a]
    /\ frame' = [frame EXCEPT ![p] = NewFrame]
    /\ world' = [q \in Procs |->
                   IF q = p
                     THEN [NewWorld EXCEPT
                             !.overlapped = \E r \in Procs \ {p} : InFlight(r)]
                     ELSE IF InFlight(q)
                            THEN [world[q] EXCEPT !.overlapped = TRUE]
                            ELSE world[q]]
    /\ ret' = [ret EXCEPT ![p] = NoRet]
    /\ Goto(p, "checkBuffer")
    /\ UNCHANGED <<now, Files, tmpDirs, probe, cancelled>>

\* The caller serializes renewals: no other invocation is in flight.
Call(p) ==
    /\ \A q \in Procs : pc[q] = "idle"
    /\ \E a \in Args : Enter(p, a)

\* The caller has taken the result; the frame is gone, and with it the name
\* of the temporary directory: a directory left behind is no longer tracked.
Leave(p) ==
    /\ pc[p] = "returned"
    /\ pc' = [pc EXCEPT ![p] = "idle"]
    /\ args' = [args EXCEPT ![p] = NoArgs]
    /\ frame' = [frame EXCEPT ![p] = NewFrame]
    /\ world' = [world EXCEPT ![p] = NewWorld]
    /\ ret' = [ret EXCEPT ![p] = NoRet]
    /\ tmpDirs' = tmpDirs \ {p}
    /\ cancelled' = cancelled \ {p}
    /\ UNCHANGED <<now, Files, probe>>

CheckBuffer_RemovesSeen(p) ==
    /\ pc[p] = "checkBuffer"
    /\ IF UseBuffer(args[p], clusterCertFile.exists)
         THEN /\ Goto(p, "readClusterCert")
              /\ world' = [world EXCEPT ![p].sawBuffer = TRUE]
              /\ clusterCertFile' =
                   [exists |-> FALSE, readable |-> FALSE, bytes |-> NoBytes]
         ELSE /\ Goto(p, "removeBuffer")
              /\ UNCHANGED <<world, clusterCertFile>>
    /\ UNCHANGED <<now, clusterKeyFile, serverCert, tmpDirs, args, frame, ret,
                   probe, cancelled>>

\* ------------------------------------------------ lines 54-83, the buffer
\* if !force && clustered && util.PathExists(clusterCertFilename) {
CheckBuffer(p) ==
    /\ pc[p] = "checkBuffer"
    /\ IF UseBuffer(args[p], clusterCertFile.exists)
         THEN /\ Goto(p, "readClusterCert")
              /\ world' = [world EXCEPT ![p].sawBuffer = TRUE]
         ELSE /\ Goto(p, "removeBuffer")
              /\ UNCHANGED world
    /\ UNCHANGED <<now, Files, tmpDirs, args, frame, ret, probe, cancelled>>

ReadClusterCert_Swallow(p) ==
    /\ pc[p] = "readClusterCert"
    /\ IF clusterCertFile.exists /\ clusterCertFile.readable
         THEN /\ frame' = [frame EXCEPT ![p].clusterCert = clusterCertFile.bytes]
              /\ Goto(p, "readKey")
         ELSE /\ Goto(p, "removeBuffer")
              /\ UNCHANGED frame
    /\ UNCHANGED <<now, Files, tmpDirs, args, ret, world, probe, cancelled>>

\* clusterCert, err := os.ReadFile(clusterCertFilename)
ReadClusterCert(p) ==
    /\ pc[p] = "readClusterCert"
    /\ IF clusterCertFile.exists /\ clusterCertFile.readable
         THEN /\ frame' = [frame EXCEPT ![p].clusterCert = clusterCertFile.bytes]
              /\ Goto(p, "readKey")
              /\ UNCHANGED ret
         ELSE /\ Return(p, Error("Failed reading cluster certificate file", PlainErr))
              /\ UNCHANGED frame
    /\ UNCHANGED <<now, Files, tmpDirs, args, world, probe, cancelled>>

\* key, err := os.ReadFile(keyFilename)
ReadKey(p) ==
    /\ pc[p] = "readKey"
    /\ IF clusterKeyFile # "unreadable"
         THEN /\ frame' = [frame EXCEPT ![p].key = clusterKeyFile]
              /\ Goto(p, "keyPair")
              /\ UNCHANGED ret
         ELSE /\ Return(p, Error("Failed reading cluster key file", PlainErr))
              /\ UNCHANGED frame
    /\ UNCHANGED <<now, Files, tmpDirs, args, world, probe, cancelled>>

\* keyPair, err := tls.X509KeyPair(clusterCert, key)
KeyPair(p) ==
    /\ pc[p] = "keyPair"
    /\ IF frame[p].clusterCert.form # "garbage" /\ frame[p].key = "ok"
         THEN /\ Goto(p, "parseClusterCert")
              /\ UNCHANGED ret
         ELSE Return(p, Error("Failed to get keypair", PlainErr))
    /\ UNCHANGED <<now, Files, tmpDirs, args, frame, world, probe, cancelled>>

\* cert, err := x509.ParseCertificate(keyPair.Certificate[0])
ParseClusterCert(p) ==
    /\ pc[p] = "parseClusterCert"
    /\ IF frame[p].clusterCert.form = "pem"
         THEN /\ frame' = [frame EXCEPT ![p].bufCert = frame[p].clusterCert.cert]
              /\ Goto(p, "evalBuffer")
              /\ UNCHANGED ret
         ELSE /\ Return(p, Error("Failed to parse certificate", PlainErr))
              /\ UNCHANGED frame
    /\ UNCHANGED <<now, Files, tmpDirs, args, world, probe, cancelled>>

EvalBuffer_StaleIssues(p) ==
    /\ pc[p] = "evalBuffer"
    /\ IF ~certificateNeedsUpdate(args[p].domain, frame[p].bufCert, now)
         THEN Return(p, Resource(frame[p].clusterCert, "cluster.key"))
         ELSE /\ Goto(p, IF args[p].challengeType = "DNS-01"
                           THEN "acmeDNS" ELSE "generateKey")
              /\ UNCHANGED ret
    /\ UNCHANGED <<now, Files, tmpDirs, args, frame, world, probe, cancelled>>

\* if !certificateNeedsUpdate(domain, cert) { return &certificate.Resource{...} }
EvalBuffer(p) ==
    /\ pc[p] = "evalBuffer"
    /\ IF ~certificateNeedsUpdate(args[p].domain, frame[p].bufCert, now)
         THEN Return(p, Resource(frame[p].clusterCert, "cluster.key"))
         ELSE /\ Goto(p, "removeBuffer")
              /\ UNCHANGED ret
    /\ UNCHANGED <<now, Files, tmpDirs, args, frame, world, probe, cancelled>>

RemoveBuffer_FailsCall(p) ==
    /\ pc[p] = "removeBuffer"
    /\ IF clusterCertFile.exists
         THEN \E removed \in BOOLEAN :
                /\ clusterCertFile' =
                     IF removed
                       THEN [exists |-> FALSE, readable |-> FALSE, bytes |-> NoBytes]
                       ELSE clusterCertFile
                /\ world' = [world EXCEPT ![p].removes = @ + 1,
                                          ![p].removeFailed = ~removed]
                /\ IF removed
                     THEN Goto(p, "loadCert") /\ UNCHANGED ret
                     ELSE Return(p, Error("Failed to remove cluster certificate file", PlainErr))
         ELSE /\ UNCHANGED <<clusterCertFile, world, ret>>
              /\ Goto(p, "loadCert")
    /\ UNCHANGED <<now, clusterKeyFile, serverCert, tmpDirs, args, frame, probe, cancelled>>

RemoveBuffer_Skip(p) ==
    /\ pc[p] = "removeBuffer"
    /\ Goto(p, "loadCert")
    /\ UNCHANGED <<now, Files, tmpDirs, args, frame, ret, world, probe, cancelled>>

\* ------------------------------------------------------------ lines 85-87
\* if util.PathExists(clusterCertFilename) { _ = os.Remove(clusterCertFilename) }
\* os.Remove removes the file or fails; its error is dropped.
RemoveBuffer(p) ==
    /\ pc[p] = "removeBuffer"
    /\ IF clusterCertFile.exists
         THEN \E removed \in BOOLEAN :
                /\ clusterCertFile' =
                     IF removed
                       THEN [exists |-> FALSE, readable |-> FALSE, bytes |-> NoBytes]
                       ELSE clusterCertFile
                /\ world' = [world EXCEPT ![p].removes = @ + 1,
                                          ![p].removeFailed = ~removed]
         ELSE UNCHANGED <<clusterCertFile, world>>
    /\ Goto(p, "loadCert")
    /\ UNCHANGED <<now, clusterKeyFile, serverCert, tmpDirs, args, frame, ret, probe, cancelled>>

LoadCert_IgnoreErr(p) ==
    /\ pc[p] = "loadCert"
    /\ IF serverCert.loads
         THEN /\ frame' = [frame EXCEPT ![p].certInfo = serverCert.bytes]
              /\ Goto(p, "parseCert")
         ELSE /\ Goto(p, "checkActive")
              /\ UNCHANGED frame
    /\ UNCHANGED <<now, Files, tmpDirs, args, ret, world, probe, cancelled>>

\* ----------------------------------------------------------- lines 89-103
\* certInfo, err := internalUtil.LoadCert(s.OS.VarDir)
LoadCert(p) ==
    /\ pc[p] = "loadCert"
    /\ IF serverCert.loads
         THEN /\ frame' = [frame EXCEPT ![p].certInfo = serverCert.bytes]
              /\ Goto(p, "parseCert")
              /\ UNCHANGED ret
         ELSE /\ Return(p, Error("Failed to load certificate and key file", PlainErr))
              /\ UNCHANGED frame
    /\ UNCHANGED <<now, Files, tmpDirs, args, world, probe, cancelled>>

\* cert, err := x509.ParseCertificate(certInfo.KeyPair().Certificate[0])
ParseCert(p) ==
    /\ pc[p] = "parseCert"
    /\ IF frame[p].certInfo.form = "pem"
         THEN /\ frame' = [frame EXCEPT ![p].cert = frame[p].certInfo.cert]
              /\ Goto(p, "checkActive")
              /\ UNCHANGED ret
         ELSE /\ Return(p, Error("Failed to parse certificate", PlainErr))
              /\ UNCHANGED frame
    /\ UNCHANGED <<now, Files, tmpDirs, args, world, probe, cancelled>>

\* if !force && !certificateNeedsUpdate(domain, cert) { return nil, nil }
\* if challengeType == "DNS-01" { ... }
CheckActive(p) ==
    /\ pc[p] = "checkActive"
    /\ IF SkipRenewal(args[p], frame[p].cert, now)
         THEN Return(p, NilRet)
         ELSE /\ Goto(p, IF args[p].challengeType = "DNS-01"
                           THEN "acmeDNS" ELSE "generateKey")
              /\ UNCHANGED ret
    /\ UNCHANGED <<now, Files, tmpDirs, args, frame, world, probe, cancelled>>

\* ------------------------------------------------ lines 105-155, DNS-01
\* provider, environment, resolvers := s.GlobalConfig.ACMEDNS()
\* if provider == "" { return nil, fmt.Errorf("DNS-01 challenge type requires ...") }
ACMEDNS(p) ==
    /\ pc[p] = "acmeDNS"
    /\ \E provider \in DNSProviders :
         /\ frame' = [frame EXCEPT ![p].provider = provider]
         /\ IF ProviderMissing(provider)
              THEN Return(p, Error("DNS-01 challenge type requires acme.dns.provider configuration key to be set", NoErr))
              ELSE /\ Goto(p, "mkdirTemp")
                   /\ UNCHANGED ret
    /\ UNCHANGED <<now, Files, tmpDirs, args, world, probe, cancelled>>

\* tmpDir, err := os.MkdirTemp("", "lego"); defer func() { os.RemoveAll(tmpDir) }()
MkdirTemp(p) ==
    /\ pc[p] = "mkdirTemp"
    /\ world' = [world EXCEPT ![p].mkdirs = @ + 1]
    /\ \E created \in BOOLEAN :
         IF created
           THEN /\ tmpDirs' = tmpDirs \cup {p}
                /\ frame' = [frame EXCEPT ![p].tmpDir = TRUE]
                /\ Goto(p, "runLego")
                /\ UNCHANGED ret
           ELSE /\ Return(p, Error("Failed to create temporary directory", PlainErr))
                /\ UNCHANGED <<tmpDirs, frame>>
    /\ UNCHANGED <<now, Files, args, probe, cancelled>>

RunLego_Retry(p) ==
    /\ pc[p] = "runLego"
    /\ world' = [world EXCEPT ![p].legoRuns = @ + 1,
                              ![p].legoServer = LegoServerArg(args[p].caURL)]
    /\ \E ok \in BOOLEAN :
         IF ok
           THEN /\ Goto(p, "loadIssued")
                /\ UNCHANGED ret
           ELSE IF world[p].legoRuns + 1 < retries
                  THEN /\ Goto(p, "runLego")
                       /\ UNCHANGED ret
                  ELSE ReturnDeferred(p, Error("Failed to run lego command", PlainErr))
    /\ UNCHANGED <<now, Files, tmpDirs, args, frame, probe, cancelled>>

\* _, _, err = subprocess.RunCommandSplit(..., "lego", args...)
RunLego(p) ==
    /\ pc[p] = "runLego"
    /\ world' = [world EXCEPT ![p].legoRuns = @ + 1,
                              ![p].legoServer = LegoServerArg(args[p].caURL)]
    /\ \E ok \in BOOLEAN :
         IF ok
           THEN /\ Goto(p, "loadIssued")
                /\ UNCHANGED ret
           ELSE ReturnDeferred(p, Error("Failed to run lego command", PlainErr))
    /\ UNCHANGED <<now, Files, tmpDirs, args, frame, probe, cancelled>>

\* certInfo, err = localtls.KeyPairAndCA(tmpDir+"/certificates", domain, ...)
\* return &certificate.Resource{certInfo.PublicKey(), certInfo.PrivateKey()}, nil
LoadIssued(p) ==
    /\ pc[p] = "loadIssued"
    /\ \E ok \in BOOLEAN :
         IF ok
           THEN /\ frame' = [frame EXCEPT ![p].certInfo = IssuedBytes(args[p].domain)]
                /\ ReturnDeferred(p, Resource(IssuedBytes(args[p].domain), "lego.key"))
           ELSE /\ ReturnDeferred(p, Error("Failed to load certificate and key file", PlainErr))
                /\ UNCHANGED frame
    /\ UNCHANGED <<now, Files, tmpDirs, args, world, probe, cancelled>>

\* The deferred function: err := os.RemoveAll(tmpDir); a failure is logged.
DeferredRemoveAll(p) ==
    /\ pc[p] = "defer"
    /\ \E removed \in BOOLEAN :
         /\ tmpDirs' = IF removed THEN tmpDirs \ {p} ELSE tmpDirs
         /\ world' = [world EXCEPT ![p].removeAlls = @ + 1,
                                   ![p].removeAllFailed = ~removed]
    /\ Goto(p, "returned")
    /\ UNCHANGED <<now, Files, args, frame, ret, probe, cancelled>>

\* ------------------------------------------------ lines 157-187, HTTP-01
\* privateKey, err := ecdsa.GenerateKey(elliptic.P256(), rand.Reader)
GenerateKey(p) ==
    /\ pc[p] = "generateKey"
    /\ world' = [world EXCEPT ![p].keyGens = @ + 1]
    /\ \E ok \in BOOLEAN :
         IF ok
           THEN /\ frame' = [frame EXCEPT ![p].privateKey = TRUE]
                /\ Goto(p, "newClient")
                /\ UNCHANGED ret
           ELSE /\ Return(p, Error("Failed generating private key for user account", PlainErr))
                /\ UNCHANGED frame
    /\ UNCHANGED <<now, Files, tmpDirs, args, probe, cancelled>>

\* config := lego.NewConfig(&user); config.CADirURL = ...
\* client, err := lego.NewClient(config)
NewClient(p) ==
    /\ pc[p] = "newClient"
    /\ frame' = [frame EXCEPT ![p].CADirURL = CADirURL(args[p].caURL)]
    /\ world' = [world EXCEPT ![p].clients = @ + 1]
    /\ \E ok \in BOOLEAN :
         IF ok
           THEN /\ Goto(p, "registerWithSolver")
                /\ UNCHANGED ret
           ELSE Return(p, Error("Failed to create new client", PlainErr))
    /\ UNCHANGED <<now, Files, tmpDirs, args, probe, cancelled>>

\* err = provider.RegisterWithSolver(client.Challenge)
RegisterWithSolver(p) ==
    /\ pc[p] = "registerWithSolver"
    /\ \E ok \in BOOLEAN :
         IF ok
           THEN /\ Goto(p, "register")
                /\ frame' = [frame EXCEPT ![p].i = 0]
                /\ UNCHANGED ret
           ELSE /\ Return(p, Error("Failed setting challenge provider", PlainErr))
                /\ UNCHANGED frame
    /\ UNCHANGED <<now, Files, tmpDirs, args, world, probe, cancelled>>

\* ------------------------------------------ lines 189-210, registration
\* Where the loop goes after an attempt that returned err.
AfterAttempt_SleepFirst(err, sleepAt, doneAt) ==
    IF err.isNil THEN doneAt ELSE sleepAt

AfterAttempt(err, sleepAt, doneAt) ==
    IF err.isNil THEN doneAt
    ELSE IF IsRateLimited(err) THEN doneAt
    ELSE sleepAt

\* for i := 0; i < retries; i++ { reg, err = client.Registration.Register(...)
Register(p) ==
    /\ pc[p] = "register"
    /\ IF frame[p].i < retries
         THEN \E e \in CAOutcomes :
                /\ world' = [world EXCEPT ![p].regAttempts = @ + 1]
                /\ frame' = [frame EXCEPT ![p].err = e]
                /\ Goto(p, AfterAttempt(e, "registerSleep", "registerCheck"))
         ELSE /\ Goto(p, "registerCheck")
              /\ UNCHANGED <<world, frame>>
    /\ UNCHANGED <<now, Files, tmpDirs, args, ret, probe, cancelled>>

Backoff_None(w, f) == [w |-> w, f |-> [f EXCEPT !.i = @ + 1]]

\* l.Warn(...); time.Sleep(10 * time.Second); then i++
\* w is the number of sleeps so far, f the frame.
Backoff(w, f) == [w |-> w + 1, f |-> [f EXCEPT !.i = @ + 1]]

RegisterSleep(p) ==
    /\ pc[p] = "registerSleep"
    /\ world' = [world EXCEPT ![p].regSleeps = Backoff(@, frame[p]).w]
    /\ frame' = [frame EXCEPT ![p] = Backoff(world[p].regSleeps, @).f]
    /\ Goto(p, "register")
    /\ UNCHANGED <<now, Files, tmpDirs, args, ret, probe, cancelled>>

RegisterCheck_AccountKey(p) ==
    /\ pc[p] = "registerCheck"
    /\ IF ~frame[p].err.isNil
         THEN /\ Return(p, Error("Failed to register user", frame[p].err))
              /\ UNCHANGED <<frame, world>>
         ELSE /\ frame' = [frame EXCEPT ![p].reg = TRUE, ![p].i = 0]
              /\ world' = [world EXCEPT ![p].obtDomains = {args[p].domain},
                                        ![p].obtKey = "account.key"]
              /\ Goto(p, "obtain")
              /\ UNCHANGED ret
    /\ UNCHANGED <<now, Files, tmpDirs, args, probe, cancelled>>

RegisterCheck_IgnoreErr(p) ==
    /\ pc[p] = "registerCheck"
    /\ frame' = [frame EXCEPT ![p].reg = frame[p].err.isNil, ![p].i = 0]
    /\ world' = [world EXCEPT ![p].obtDomains = {args[p].domain},
                              ![p].obtKey = "server.key"]
    /\ Goto(p, "obtain")
    /\ UNCHANGED ret
    /\ UNCHANGED <<now, Files, tmpDirs, args, probe, cancelled>>

\* if err != nil { return nil, fmt.Errorf("Failed to register user: %w", err) }
\* user.Registration = reg; request := certificate.ObtainRequest{...}
RegisterCheck(p) ==
    /\ pc[p] = "registerCheck"
    /\ IF ~frame[p].err.isNil
         THEN /\ Return(p, Error("Failed to register user", frame[p].err))
              /\ UNCHANGED <<frame, world>>
         ELSE /\ frame' = [frame EXCEPT ![p].reg = TRUE, ![p].i = 0]
              /\ world' = [world EXCEPT ![p].obtDomains = {args[p].domain},
                                        ![p].obtKey = "server.key"]
              /\ Goto(p, "obtain")
              /\ UNCHANGED ret
    /\ UNCHANGED <<now, Files, tmpDirs, args, probe, cancelled>>

\* ---------------------------------------------- lines 220-248, issuance
\* for i := 0; i < retries; i++ { certificates, err = client.Certificate.Obtain(request)
Obtain(p) ==
    /\ pc[p] = "obtain"
    /\ IF frame[p].i < retries
         THEN \E e \in CAOutcomes :
                /\ world' = [world EXCEPT ![p].obtAttempts = @ + 1]
                /\ frame' = [frame EXCEPT ![p].err = e]
                /\ Goto(p, AfterAttempt(e, "obtainSleep", "obtainCheck"))
         ELSE /\ Goto(p, "obtainCheck")
              /\ UNCHANGED <<world, frame>>
    /\ UNCHANGED <<now, Files, tmpDirs, args, ret, probe, cancelled>>

ObtainSleep_Hang(p) ==
    /\ pc[p] = "obtainSleep"
    /\ UNCHANGED vars

ObtainSleep(p) ==
    /\ pc[p] = "obtainSleep"
    /\ world' = [world EXCEPT ![p].obtSleeps = Backoff(@, frame[p]).w]
    /\ frame' = [frame EXCEPT ![p] = Backoff(world[p].obtSleeps, @).f]
    /\ Goto(p, "obtain")
    /\ UNCHANGED <<now, Files, tmpDirs, args, ret, probe, cancelled>>

\* if err != nil { return nil, fmt.Errorf("Failed to obtain certificate: %w", err) }
\* return certificates, nil
ObtainCheck(p) ==
    /\ pc[p] = "obtainCheck"
    /\ IF ~frame[p].err.isNil
         THEN Return(p, Error("Failed to obtain certificate", frame[p].err))
         ELSE Return(p, Resource(IssuedBytes(args[p].domain), world[p].obtKey))
    /\ UNCHANGED <<now, Files, tmpDirs, args, frame, world, probe, cancelled>>

\* ------------------------------------------------------- specification
Step(p) ==
    \/ CheckBuffer(p)
    \/ ReadClusterCert(p)
    \/ ReadKey(p)
    \/ KeyPair(p)
    \/ ParseClusterCert(p)
    \/ EvalBuffer(p)
    \/ RemoveBuffer(p)
    \/ LoadCert(p)
    \/ ParseCert(p)
    \/ CheckActive(p)
    \/ ACMEDNS(p)
    \/ MkdirTemp(p)
    \/ RunLego(p)
    \/ LoadIssued(p)
    \/ DeferredRemoveAll(p)
    \/ GenerateKey(p)
    \/ NewClient(p)
    \/ RegisterWithSolver(p)
    \/ Register(p)
    \/ RegisterSleep(p)
    \/ RegisterCheck(p)
    \/ Obtain(p)
    \/ ObtainSleep(p)
    \/ ObtainCheck(p)
    \/ Leave(p)

Next ==
    \/ Tick
    \/ \E p \in Procs : Call(p)
    \/ \E p \in Procs : Step(p)

Spec == Init /\ [][Next]_vars

\* One caller: every invocation is made by the first of the two callers,
\* from every initial state of the files.  Every external call of an
\* invocation in flight returns (file reads, the subprocess, the CA,
\* time.Sleep) and the goroutine is scheduled: the next step of an
\* invocation that has one is eventually taken.  The clock stands at
\* its last value, where a certificate on disk has either less than 30 days
\* left or at least 30, so both outcomes of certificateNeedsUpdate occur.
OneCallerInit == Init /\ now = MaxNow

OneCallerNext ==
    \/ Call(1)
    \/ Step(1)

OneCallerFairSpec ==
    OneCallerInit /\ [][OneCallerNext]_vars /\ WF_vars(Step(1))

\* ------------------------------------------------- concurrent invocations
\* Nothing in UpdateCertificate takes a lock: two callers may invoke it at
\* the same time.  The daemon is clustered and both callers ask for
\* b.example.com with the default CA, in either challenge mode: the first
\* caller is the periodic renewal (force = false), the second a forced
\* renewal.  The buffer and the active certificate are on disk, well formed,
\* and were issued for a.example.com.
ConcArgs(p) ==
    {a \in Args : /\ a.domain = "b.example.com" /\ a.caURL = "" /\ a.clustered
                  /\ a.force = (p # 1)}

OldCert == [DNSNames |-> {"a.example.com"}, NotAfter |-> ThirtyDays + MaxSlack]

ConcInit ==
    /\ Init
    /\ now = MaxNow
    /\ clusterCertFile = [exists |-> TRUE, readable |-> TRUE,
                          bytes |-> PemFile(OldCert)]
    /\ clusterKeyFile = "ok"
    /\ serverCert = [loads |-> TRUE, bytes |-> PemFile(OldCert)]

ConcNext ==
    \/ \E p \in Procs : \E a \in ConcArgs(p) : Enter(p, a)
    \/ \E p \in Procs : Step(p)

ConcSpec == ConcInit /\ [][ConcNext]_vars

\* ------------------------------------ lines 204-205 and 238-239, the sleeps
\* The caller signals cancellation while invocation p is in a backoff
\* sleep.  UpdateCertificate takes no context and no channel, and the sleeps
\* are time.Sleep: nothing in RegisterSleep or ObtainSleep reads the signal.
Cancel(p) ==
    /\ pc[p] \in {"registerSleep", "obtainSleep"}
    /\ p \notin cancelled
    /\ cancelled' = cancelled \cup {p}
    /\ UNCHANGED <<now, Files, tmpDirs, pc, args, frame, ret, world, probe>>

CancelNext ==
    \/ Next
    \/ \E p \in Procs : Cancel(p)

SpecCancel == Init /\ [][CancelNext]_vars

\* ------------------------------------- certificateNeedsUpdate on its own
\* The function applied to every domain, certificate and time of the probe
\* sets; no invocation of UpdateCertificate runs.
PolicyInit ==
    /\ probe \in Probes
    /\ now = 0
    /\ clusterCertFile = [exists |-> FALSE, readable |-> FALSE, bytes |-> NoBytes]
    /\ clusterKeyFile = "ok"
    /\ serverCert = [loads |-> FALSE, bytes |-> NoBytes]
    /\ tmpDirs = {}
    /\ pc = [p \in Procs |-> "idle"]
    /\ args = [p \in Procs |-> NoArgs]
    /\ frame = [p \in Procs |-> NewFrame]
    /\ ret = [p \in Procs |-> NoRet]
    /\ world = [p \in Procs |-> NewWorld]
    /\ cancelled = {}

ApplyPolicy ==
    /\ ~probe.applied
    /\ probe' = [probe EXCEPT
                   !.applied = TRUE,
                   !.result = certificateNeedsUpdate(probe.domain, probe.cert, probe.t)]
    /\ UNCHANGED <<now, Files, tmpDirs, pc, args, frame, ret, world, cancelled>>

PolicyNext == ApplyPolicy

PolicySpec == PolicyInit /\ [][PolicyNext]_vars

\* ====================================================================
\* Properties
\* ====================================================================
\* No DNS-01 subprocess run, no account key, no ACME client, no CA
\* registration or issuance request, no backoff.
NoIssuance(w) ==
    /\ w.mkdirs = 0 /\ w.legoRuns = 0
    /\ w.keyGens = 0 /\ w.clients = 0
    /\ w.regAttempts = 0 /\ w.regSleeps = 0
    /\ w.obtAttempts = 0 /\ w.obtSleeps = 0

\* An issuance step has taken place: the subprocess ran or the CA was asked
\* to register or to issue.
IssuanceStarted(w) ==
    w.legoRuns > 0 \/ w.regAttempts > 0 \/ w.obtAttempts > 0

\* The buffer file exists, reads as a valid key pair, and its certificate
\* does not need an update for the domain p asks for.
FreshBuffer(p) ==
    /\ clusterCertFile.exists /\ clusterCertFile.readable
    /\ clusterCertFile.bytes.form = "pem"
    /\ clusterKeyFile = "ok"
    /\ ~certificateNeedsUpdate(args[p].domain, clusterCertFile.bytes.cert, now)

Buffered(p) == Resource(clusterCertFile.bytes, "cluster.key")

\* C1: a call with clustered = true and force = false that finds a readable,
\* valid buffer whose certificate does not need an update returns exactly the
\* buffered certificate and key, without error, registers nothing, issues
\* nothing, runs no subprocess and leaves the buffer file as it is.
C1_BufferedFastPath ==
    [][\A p \in Procs :
         (pc[p] # "idle" /\ args[p].clustered /\ ~args[p].force /\ FreshBuffer(p))
         => /\ clusterCertFile' = clusterCertFile
            /\ world'[p].removes = 0
            /\ NoIssuance(world'[p])
            /\ pc'[p] \in {"checkBuffer", "readClusterCert", "readKey", "keyPair",
                           "parseClusterCert", "evalBuffer", "returned", "idle"}
            /\ (pc[p] # "returned" /\ pc'[p] = "returned" => ret'[p] = Buffered(p))]_vars

C1_Witness ==
    \E p \in Procs :
        /\ pc[p] = "returned" /\ args[p].clustered /\ ~args[p].force
        /\ FreshBuffer(p)
        /\ ret[p] = Buffered(p)
        /\ world[p].sawBuffer

\* Errors returned before the first issuance step of either challenge mode.
SetupErrors ==
    {"Failed to load certificate and key file", "Failed to parse certificate",
     "DNS-01 challenge type requires acme.dns.provider configuration key to be set",
     "Failed to create temporary directory",
     "Failed generating private key for user account",
     "Failed to create new client", "Failed setting challenge provider"}

\* C2 as stated: with force = true every call reaches the DNS-01 subprocess
\* run or the first CA registration attempt, whatever the buffer and the
\* active certificate are.
C2_ForcedAlwaysIssues ==
    \A p \in Procs :
        (pc[p] = "returned" /\ args[p].force)
        => (world[p].legoRuns >= 1 \/ world[p].regAttempts >= 1)

\* C2 amended: with force = true the buffer is neither read nor returned and
\* the call never returns nil; it reaches the DNS-01 subprocess run or the
\* first CA registration attempt unless it returns an error raised before
\* that step (active certificate not loadable or not parsable, DNS provider
\* missing, temporary directory, account key, client or solver set-up failed).
C2_ForcedIssuesOrSetupError ==
    \A p \in Procs :
        (pc[p] # "idle" /\ args[p].force)
        => /\ ~world[p].sawBuffer
           /\ frame[p].clusterCert = NoBytes
           /\ ret[p].kind # "nil"
           /\ ret[p].PrivateKey # "cluster.key"
           /\ (pc[p] = "returned"
                 => \/ world[p].legoRuns >= 1
                    \/ world[p].regAttempts >= 1
                    \/ (ret[p].kind = "error" /\ ret[p].msg \in SetupErrors
                          /\ ~IssuanceStarted(world[p])))

\* A forced, clustered call finds a buffer file and a fresh active
\* certificate, and issues all the same.
C2_Witness ==
    \E p \in Procs :
        /\ pc[p] = "returned" /\ args[p].force /\ args[p].clustered
        /\ world[p].removes = 1
        /\ ~certificateNeedsUpdate(args[p].domain, frame[p].cert, now)
        /\ frame[p].cert # NoCert
        /\ world[p].regAttempts >= 1
        /\ ret[p].kind = "resource"

\* The call saw the buffer, parsed it and found that its certificate needs
\* an update for the domain.
StaleBufferSeen(p) ==
    /\ world[p].sawBuffer
    /\ frame[p].bufCert # NoCert
    /\ certificateNeedsUpdate(args[p].domain, frame[p].bufCert, now)
    /\ pc[p] \notin {"idle", "evalBuffer"}

\* C3 as stated: once a clustered, unforced call found the buffer stale, the
\* buffer file is gone before any issuance step takes place.
C3_StaleBufferGone ==
    \A p \in Procs :
        (StaleBufferSeen(p) /\ IssuanceStarted(world[p]))
        => ~clusterCertFile.exists

\* C3 amended: once a clustered, unforced call found the buffer stale,
\* os.Remove is called on the buffer file before any issuance step; the file
\* is gone, and a later load finds nothing, provided that call succeeded (its
\* error is dropped).
C3_StaleBufferRemoveAttempted ==
    \A p \in Procs :
        StaleBufferSeen(p)
        => /\ (pc[p] = "removeBuffer" => ~IssuanceStarted(world[p]))
           /\ (pc[p] # "removeBuffer"
                 => /\ world[p].removes = 1
                    /\ (~world[p].removeFailed => ~clusterCertFile.exists))

C3_Witness ==
    \E p \in Procs :
        /\ StaleBufferSeen(p)
        /\ IssuanceStarted(world[p])
        /\ world[p].removes = 1 /\ ~world[p].removeFailed
        /\ ~clusterCertFile.exists

\* C4: in the registration loop and in the issuance loop, a rate-limit error
\* on attempt k ends the loop after exactly k attempts: no sleep follows, no
\* further attempt is made, and the call returns the error of that phase.
C4_RateLimitStops ==
    \A p \in Procs :
        (pc[p] # "idle" /\ frame[p].err = RateLimitedErr)
        => IF world[p].obtAttempts = 0
             THEN /\ pc[p] \in {"registerCheck", "returned"}
                  /\ world[p].regAttempts = frame[p].i + 1
                  /\ world[p].regSleeps = world[p].regAttempts - 1
                  /\ (pc[p] = "returned"
                        => ret[p] = Error("Failed to register user", RateLimitedErr))
             ELSE /\ pc[p] \in {"obtainCheck", "returned"}
                  /\ world[p].obtAttempts = frame[p].i + 1
                  /\ world[p].obtSleeps = world[p].obtAttempts - 1
                  /\ (pc[p] = "returned"
                        => ret[p] = Error("Failed to obtain certificate", RateLimitedErr))

\* A rate limit on the first registration attempt: one attempt, no sleep.
C4_Witness ==
    \E p \in Procs :
        /\ pc[p] = "returned"
        /\ ret[p] = Error("Failed to register user", RateLimitedErr)
        /\ world[p].regAttempts = 1 /\ world[p].regSleeps = 0

\* C5: in both loops, when the CA fails with errors that are not rate limits
\* on attempts 1..k-1 and succeeds on attempt k <= 5, the loop succeeds after
\* exactly k attempts and k-1 backoff sleeps.
C5_SuccessAfterRetries ==
    \A p \in Procs :
        /\ (pc[p] = "registerCheck" /\ frame[p].err.isNil)
             => /\ world[p].regAttempts = frame[p].i + 1
                /\ world[p].regAttempts <= retries
                /\ world[p].regSleeps = world[p].regAttempts - 1
        /\ frame[p].reg
             => /\ world[p].regAttempts \in 1..retries
                /\ world[p].regSleeps = world[p].regAttempts - 1
        /\ (pc[p] = "obtainCheck" /\ frame[p].err.isNil)
             => /\ world[p].obtAttempts = frame[p].i + 1
                /\ world[p].obtAttempts <= retries
                /\ world[p].obtSleeps = world[p].obtAttempts - 1
        /\ (pc[p] = "returned" /\ frame[p].reg /\ frame[p].err.isNil)
             => /\ ret[p].kind = "resource"
                /\ world[p].obtAttempts \in 1..retries
                /\ world[p].obtSleeps = world[p].obtAttempts - 1

\* Both loops fail four times and succeed on the fifth attempt.
C5_Witness ==
    \E p \in Procs :
        /\ pc[p] = "returned" /\ ret[p].kind = "resource"
        /\ world[p].regAttempts = 5 /\ world[p].regSleeps = 4
        /\ world[p].obtAttempts = 5 /\ world[p].obtSleeps = 4

\* C6: certificateNeedsUpdate(d, c) is true whenever d is not among c's DNS
\* names, whatever c's expiry and the current time are.
C6_OtherDomainNeedsUpdate ==
    (probe.applied /\ probe.domain \notin probe.cert.DNSNames) => probe.result

\* The domain is missing from a certificate that is far from its expiry.
C6_Witness ==
    /\ probe.applied /\ probe.domain \notin probe.cert.DNSNames
    /\ probe.cert.DNSNames # {}
    /\ probe.t < probe.cert.NotAfter - ThirtyDays
    /\ probe.result

\* C7: certificateNeedsUpdate(d, c) is false when c's DNS names contain d and
\* now < c.NotAfter - 30 days.
C7_FreshCertNoUpdate ==
    (/\ probe.applied
     /\ probe.domain \in probe.cert.DNSNames
     /\ probe.t < probe.cert.NotAfter - ThirtyDays)
    => ~probe.result

C7_Witness ==
    /\ probe.applied
    /\ probe.domain \in probe.cert.DNSNames
    /\ probe.t < probe.cert.NotAfter - ThirtyDays
    /\ ~probe.result

\* The active certificate loads, parses and does not need an update for the
\* domain p asks for.
ActiveFresh(p) ==
    /\ serverCert.loads /\ serverCert.bytes.form = "pem"
    /\ ~certificateNeedsUpdate(args[p].domain, serverCert.bytes.cert, now)

\* The call returned the buffered certificate.
FastPathApplied(p) ==
    ret[p].kind = "resource" /\ ret[p].PrivateKey = "cluster.key"

\* The call returned an error from the block of lines 54-83.
BufferReadFailed(p) ==
    /\ ret[p].kind = "error"
    /\ \/ ret[p].msg \in {"Failed reading cluster certificate file",
                          "Failed reading cluster key file", "Failed to get keypair"}
       \/ (ret[p].msg = "Failed to parse certificate"
             /\ frame[p].clusterCert.form = "unparsable")

\* C8 as stated: the call returns nil exactly when force = false, the
\* buffered-certificate fast path did not apply and the active certificate
\* does not need an update; on that path nothing is issued.
C8_NilIffNoRenewalNeeded ==
    \A p \in Procs :
        pc[p] = "returned"
        => /\ (ret[p].kind = "nil"
                 <=> (~args[p].force /\ ~FastPathApplied(p) /\ ActiveFresh(p)))
           /\ (ret[p].kind = "nil" => NoIssuance(world[p]))

\* C8 amended: the call returns nil exactly when force = false, it did not
\* return from the buffer block (neither the buffered certificate nor an
\* error reading the buffer), and the active certificate loads and does not
\* need an update; on that path no subprocess is run, no account key is
\* generated and the CA is not contacted.
C8_NilIffReachedFreshActive ==
    \A p \in Procs :
        pc[p] = "returned"
        => /\ (ret[p].kind = "nil"
                 <=> (/\ ~args[p].force
                      /\ ~FastPathApplied(p)
                      /\ ~BufferReadFailed(p)
                      /\ ActiveFresh(p)))
           /\ (ret[p].kind = "nil" => NoIssuance(world[p]) /\ ret[p] = NilRet)

\* nil after a stale buffer was cleared and the active certificate is fresh.
C8_Witness ==
    \E p \in Procs :
        /\ pc[p] = "returned" /\ ret[p].kind = "nil"
        /\ ~args[p].force /\ ActiveFresh(p)
        /\ world[p].sawBuffer /\ world[p].removes = 1

\* C9: when renewal is needed in DNS-01 mode and the configured DNS provider
\* is empty, the call returns a configuration error at once: no temporary
\* directory, no subprocess, no CA contact, no retry.
C9_MissingProviderFailsFast ==
    \A p \in Procs :
        frame[p].provider = ""
        => /\ pc[p] = "returned"
           /\ ret[p].kind = "error"
           /\ ret[p].msg = "DNS-01 challenge type requires acme.dns.provider configuration key to be set"
           /\ NoIssuance(world[p])
           /\ world[p].removeAlls = 0
           /\ ~frame[p].tmpDir
           /\ p \notin tmpDirs

C9_Witness ==
    \E p \in Procs :
        /\ pc[p] = "returned" /\ frame[p].provider = ""
        /\ args[p].challengeType = "DNS-01"
        /\ ret[p].kind = "error"

\* C10 as stated: once the temporary directory has been created it does not
\* exist when the call returns, on every return path.
C10_TmpDirGoneOnReturn ==
    \A p \in Procs :
        (pc[p] = "returned" /\ frame[p].tmpDir) => p \notin tmpDirs

\* C10 amended: once the temporary directory has been created, os.RemoveAll
\* is called on it exactly once before the call returns, on every return path
\* (subprocess failure, failure to load the issued files, success); the
\* directory no longer exists unless that removal itself fails, which is only
\* logged.
C10_TmpDirRemovalAlwaysRuns ==
    \A p \in Procs :
        /\ (p \in tmpDirs => frame[p].tmpDir)
        /\ (pc[p] = "returned" /\ frame[p].tmpDir)
             => /\ world[p].removeAlls = 1
                /\ (~world[p].removeAllFailed => p \notin tmpDirs)
        /\ (pc[p] # "returned" => world[p].removeAlls = 0)

\* The subprocess failed and the directory is gone on return.
C10_Witness ==
    \E p \in Procs :
        /\ pc[p] = "returned" /\ frame[p].tmpDir
        /\ ret[p] = Error("Failed to run lego command", PlainErr)
        /\ world[p].removeAlls = 1
        /\ p \notin tmpDirs

\* C11: on the DNS-01 path the external tool is run at most once per call; a
\* subprocess failure is returned as an error with no retry, no backoff sleep
\* and no fall-through to the HTTP-01 flow (no account key, no client, no
\* registration, no issuance).
C11_LegoRunsOnce ==
    \A p \in Procs :
        /\ world[p].legoRuns <= 1
        /\ world[p].legoRuns = 1
             => /\ args[p].challengeType = "DNS-01"
                /\ world[p].keyGens = 0 /\ world[p].clients = 0
                /\ world[p].regAttempts = 0 /\ world[p].obtAttempts = 0
                /\ world[p].regSleeps = 0 /\ world[p].obtSleeps = 0
                /\ pc[p] \in {"loadIssued", "defer", "returned"}
        /\ (pc[p] = "returned" /\ world[p].legoRuns = 1)
             => \/ ret[p] = Error("Failed to run lego command", PlainErr)
                \/ ret[p] = Error("Failed to load certificate and key file", PlainErr)
                \/ ret[p] = Resource(IssuedBytes(args[p].domain), "lego.key")

\* The subprocess failed: one run, an error, nothing else.
C11_Witness ==
    \E p \in Procs :
        /\ pc[p] = "returned"
        /\ ret[p] = Error("Failed to run lego command", PlainErr)
        /\ world[p].legoRuns = 1
        /\ world[p].regAttempts = 0 /\ world[p].keyGens = 0

\* The buffer file exists, but its certificate or the key cannot be read or
\* they make no valid key pair.
UnusableBuffer ==
    /\ clusterCertFile.exists
    /\ \/ ~clusterCertFile.readable
       \/ clusterCertFile.bytes.form \in {"garbage", "unparsable"}
       \/ clusterKeyFile = "unreadable"

\* C12 as stated: with clustered = true, force = false and an unusable buffer
\* the storage error is not returned; the call goes on to the active
\* certificate check.
C12_UnusableBufferIgnored ==
    \A p \in Procs :
        (pc[p] = "returned" /\ args[p].clustered /\ ~args[p].force /\ UnusableBuffer)
        => ~BufferReadFailed(p)

\* C12 amended: with clustered = true, force = false and a buffer file that
\* exists but whose certificate or key is unreadable or makes no valid key
\* pair, the call returns the storage error: the buffer file is left in place,
\* the active certificate is not loaded and nothing is issued.
C12_UnusableBufferFails ==
    \A p \in Procs :
        (pc[p] # "idle" /\ args[p].clustered /\ ~args[p].force /\ UnusableBuffer)
        => /\ pc[p] \in {"checkBuffer", "readClusterCert", "readKey", "keyPair",
                         "parseClusterCert", "returned"}
           /\ world[p].removes = 0
           /\ NoIssuance(world[p])
           /\ frame[p].certInfo = NoBytes
           /\ (pc[p] = "returned" => BufferReadFailed(p))

C12_Witness ==
    \E p \in Procs :
        /\ pc[p] = "returned" /\ args[p].clustered /\ ~args[p].force
        /\ UnusableBuffer
        /\ ret[p] = Error("Failed to get keypair", PlainErr)
        /\ ActiveFresh(p)

\* The active certificate covers a.example.com only, and p asks for
\* b.example.com over HTTP-01 on a daemon that is not clustered.
OtherDomainScenario(p) ==
    /\ pc[p] # "idle"
    /\ ~args[p].clustered
    /\ args[p].challengeType = "HTTP-01"
    /\ args[p].domain = "b.example.com"
    /\ serverCert.loads /\ serverCert.bytes.form = "pem"
    /\ serverCert.bytes.cert.DNSNames = {"a.example.com"}

\* The buffer was neither looked at, read nor returned by p.
BufferUntouched(p) ==
    /\ ~world[p].sawBuffer
    /\ frame[p].clusterCert = NoBytes /\ frame[p].key = ""
    /\ frame[p].bufCert = NoCert
    /\ pc[p] \notin {"readClusterCert", "readKey", "keyPair", "parseClusterCert",
                     "evalBuffer"}
    /\ ~FastPathApplied(p)

\* Errors of the HTTP-01 set-up between line 157 and the first Register call.
HTTPSetupErrors ==
    {"Failed generating private key for user account",
     "Failed to create new client", "Failed setting challenge provider"}

\* C13 as stated: the buffer is consulted only when clustered = true and
\* force = false, and in the scenario above every call makes a CA registration
\* attempt.
C13_BufferOnlyClusteredUnforced ==
    \A p \in Procs :
        /\ (pc[p] # "idle" /\ (~args[p].clustered \/ args[p].force))
             => BufferUntouched(p)
        /\ (OtherDomainScenario(p) /\ pc[p] = "returned")
             => world[p].regAttempts >= 1

\* C13 amended: the buffer is read and returned only when clustered = true and
\* force = false; in the scenario above the call never returns nil and never
\* runs the DNS-01 tool, but goes straight to the HTTP-01 flow: account key,
\* client and solver set-up, then CA registration, then issuance once
\* registration has succeeded.  It returns before the first registration
\* attempt only with the error of a failed set-up step.
C13_BufferOnlyClusteredUnforcedOrSetupError ==
    \A p \in Procs :
        /\ (pc[p] # "idle" /\ (~args[p].clustered \/ args[p].force))
             => BufferUntouched(p)
        /\ OtherDomainScenario(p)
             => /\ ret[p].kind # "nil"
                /\ world[p].legoRuns = 0 /\ world[p].mkdirs = 0
                /\ pc[p] \notin {"acmeDNS", "mkdirTemp", "runLego", "loadIssued", "defer"}
                /\ (world[p].obtAttempts >= 1 => frame[p].reg)
                /\ (pc[p] = "returned" /\ world[p].regAttempts = 0)
                     => (ret[p].kind = "error" /\ ret[p].msg \in HTTPSetupErrors)

\* In the scenario the call registers and is issued a certificate, with a
\* buffer file on disk that it has not read.
C13_Witness ==
    \E p \in Procs :
        /\ OtherDomainScenario(p) /\ pc[p] = "returned" /\ ~args[p].force
        /\ world[p].removes = 1
        /\ BufferUntouched(p)
        /\ world[p].regAttempts >= 1 /\ world[p].obtAttempts >= 1
        /\ ret[p] = Resource(IssuedBytes("b.example.com"), "server.key")

\* C14 as stated: the buffer file is deleted only when force = true or when
\* the buffered certificate itself needs renewal for the domain; every other
\* call leaves an existing buffer file alone.
C14_RemovedOnlyForcedOrStale ==
    \A p \in Procs :
        world[p].removes >= 1 => (args[p].force \/ StaleBufferSeen(p))

\* C14 amended: os.Remove is called on an existing buffer file by every call
\* that gets past the buffer block: when force = true, when clustered = false,
\* and when the buffered certificate needs renewal for the domain.  The file
\* is left alone only by a call that returns the buffered certificate or
\* fails reading it.
C14_RemovedUnlessReturnedOrUnreadable ==
    \A p \in Procs :
        /\ world[p].removes >= 1
             => (args[p].force \/ ~args[p].clustered \/ StaleBufferSeen(p))
        /\ (pc[p] = "returned" /\ (FastPathApplied(p) \/ BufferReadFailed(p)))
             => (world[p].removes = 0 /\ clusterCertFile.exists)
        /\ (pc[p] = "returned" /\ ~FastPathApplied(p) /\ ~BufferReadFailed(p)
              /\ clusterCertFile.exists)
             => (world[p].removes = 1 /\ world[p].removeFailed)

\* An unclustered, unforced call removed the buffer file.
C14_Witness ==
    \E p \in Procs :
        /\ pc[p] = "returned" /\ ~args[p].clustered /\ ~args[p].force
        /\ world[p].removes = 1 /\ ~world[p].removeFailed
        /\ ~clusterCertFile.exists

\* C15: when the caller passes an empty caURL and an issuance is attempted,
\* the CA directory used is the Let's Encrypt production directory in both
\* challenge modes: the client's directory URL on HTTP-01, the --server
\* argument of the external tool on DNS-01.
C15_DefaultCADirectory ==
    \A p \in Procs :
        (pc[p] # "idle" /\ args[p].caURL = "")
        => /\ (world[p].clients >= 1 => frame[p].CADirURL = LetsEncryptURL)
           /\ (world[p].legoRuns >= 1 => world[p].legoServer = LetsEncryptURL)

\* C16: cancellation signalled during a backoff sleep interrupts the sleep
\* and the call stops without a further CA attempt: an invocation whose
\* caller has cancelled is at the sleep it was cancelled in or has returned,
\* never back at a registration or issuance attempt.
C16_CancelInterruptsBackoff ==
    \A p \in cancelled :
        pc[p] \in {"registerSleep", "obtainSleep", "returned"}

\* The phases of the HTTP-01 path, read off the program counter and the
\* registration stored at line 212.
Registering(p) == pc[p] \in {"register", "registerSleep", "registerCheck"}
Issuing(p) == pc[p] \in {"obtain", "obtainSleep", "obtainCheck"}

\* C17: the HTTP-01 path goes NotRegistered, Registering, Registered,
\* Issuing, Issued.  Obtain is called only after registration succeeded in
\* this invocation; after a failed registration (rate limited or retries
\* exhausted) no issuance is attempted; after a successful registration no
\* further registration attempt is made; the issued certificate is returned
\* only after an issuance attempt succeeded.
C17_RegisterThenIssue ==
    \A p \in Procs :
        /\ (Issuing(p) \/ world[p].obtAttempts >= 1)
             => /\ frame[p].reg
                /\ world[p].regAttempts >= 1
        /\ (Registering(p) \/ world[p].regAttempts = 0) => ~frame[p].reg
        /\ frame[p].reg => (Issuing(p) \/ pc[p] = "returned")
        /\ (pc[p] = "returned" /\ ret[p].kind = "error"
              /\ ret[p].msg = "Failed to register user")
             => /\ world[p].regAttempts >= 1
                /\ ~frame[p].reg
                /\ world[p].obtAttempts = 0
        /\ (pc[p] = "returned" /\ world[p].clients >= 1
              /\ ret[p].kind = "resource")
             => /\ frame[p].reg
                /\ world[p].obtAttempts >= 1
                /\ frame[p].err.isNil

\* Registration succeeded on its second attempt, issuance on its second.
C17_Witness ==
    \E p \in Procs :
        /\ pc[p] = "returned" /\ ret[p].kind = "resource"
        /\ frame[p].reg
        /\ world[p].regAttempts = 2 /\ world[p].obtAttempts = 2

\* C18: no invocation makes more than 5 registration attempts or more than
\* 5 issuance attempts.  When all 5 attempts of a phase have failed with
\* errors that are not rate limits (each was followed by its sleep), the
\* call returns the error of that phase wrapping the last attempt's error,
\* and no certificate.
C18_AtMostFiveAttempts ==
    \A p \in Procs :
        /\ world[p].regAttempts <= 5
        /\ world[p].obtAttempts <= 5
        /\ world[p].regSleeps = 5
             => /\ world[p].regAttempts = 5
                /\ world[p].obtAttempts = 0
                /\ ~frame[p].err.isNil /\ ~IsRateLimited(frame[p].err)
                /\ pc[p] \in {"register", "registerCheck", "returned"}
                /\ (pc[p] = "returned"
                      => /\ ret[p] = Error("Failed to register user", frame[p].err)
                         /\ ret[p].Certificate = NoBytes)
        /\ world[p].obtSleeps = 5
             => /\ world[p].obtAttempts = 5
                /\ ~frame[p].err.isNil /\ ~IsRateLimited(frame[p].err)
                /\ pc[p] \in {"obtain", "obtainCheck", "returned"}
                /\ (pc[p] = "returned"
                      => /\ ret[p] = Error("Failed to obtain certificate", frame[p].err)
                         /\ ret[p].Certificate = NoBytes)

\* Registration succeeded, then all five issuance attempts failed with an
\* ACME problem that is not a rate limit.
C18_Witness ==
    \E p \in Procs :
        /\ pc[p] = "returned"
        /\ world[p].obtAttempts = 5 /\ world[p].obtSleeps = 5
        /\ ret[p] = Error("Failed to obtain certificate", OtherProblemErr)

\* C19 as stated: a certificate is valid for a domain (certificateNeedsUpdate
\* is false) iff its DNS names contain the domain and its remaining lifetime
\* NotAfter - now strictly exceeds 30 days, so that exactly 30 days remaining
\* needs renewal.
C19_ValidIffMoreThanThirtyDays ==
    probe.applied
    => (~probe.result
          <=> (/\ probe.domain \in probe.cert.DNSNames
               /\ probe.cert.NotAfter - probe.t > ThirtyDays))

\* C19, amended: a certificate is valid for a domain iff its DNS names
\* contain the domain and its remaining lifetime is at least 30 days; with
\* exactly 30 days remaining a certificate covering the domain does not need
\* renewal.
C19_ValidIffAtLeastThirtyDays ==
    probe.applied
    => (~probe.result
          <=> (/\ probe.domain \in probe.cert.DNSNames
               /\ probe.cert.NotAfter - probe.t >= ThirtyDays))

\* A certificate covering the domain with exactly 30 days left was judged.
C19_Witness ==
    /\ probe.applied
    /\ probe.domain \in probe.cert.DNSNames
    /\ probe.cert.NotAfter - probe.t = ThirtyDays
    /\ ~probe.result

\* The call is at the active-certificate stage, lines 89-103.
AtActiveCheck(p) == pc[p] \in {"loadCert", "parseCert", "checkActive"}

\* The call has gone past line 103 into one of the two issuance paths.
PastActiveCheck(p) ==
    ~NoIssuance(world[p]) \/ frame[p].provider # "unset"
      \/ pc[p] \in {"acmeDNS", "generateKey"}

\* Errors raised on an issuance path before its first issuance step.
IssuanceSetupErrors ==
    SetupErrors \ {"Failed to load certificate and key file",
                   "Failed to parse certificate"}

\* The order of the checks, common to C20 as stated and as amended: the
\* buffer is looked at only by clustered, unforced calls; a call that saw
\* the buffer reaches the active-certificate stage only after it found the
\* buffer stale and called os.Remove on it; an issuance path is entered only
\* after the active certificate was parsed and found to need an update (or
\* force is set); and a call that cleared a stale buffer and then finds the
\* active certificate fresh returns nil with no issuance step at all.
ChecksInOrder(p) ==
    /\ world[p].sawBuffer => (args[p].clustered /\ ~args[p].force)
    /\ (world[p].sawBuffer /\ (AtActiveCheck(p) \/ PastActiveCheck(p)))
         => (StaleBufferSeen(p) /\ world[p].removes = 1)
    /\ PastActiveCheck(p)
         => /\ frame[p].cert # NoCert
            /\ (args[p].force
                  \/ certificateNeedsUpdate(args[p].domain, frame[p].cert, now))
    /\ (StaleBufferSeen(p) /\ pc[p] = "returned" /\ frame[p].cert # NoCert
          /\ ~certificateNeedsUpdate(args[p].domain, frame[p].cert, now))
         => (ret[p] = NilRet /\ ~PastActiveCheck(p))

\* C20 as stated: the checks run in the fixed order buffer check, buffer
\* clear, active-certificate check, and after a stale buffer was cleared a
\* call whose active certificate needs an update always gets as far as an
\* issuance step (subprocess run or CA request).
C20_StaleThenActiveThenIssue ==
    \A p \in Procs :
        /\ ChecksInOrder(p)
        /\ (StaleBufferSeen(p) /\ pc[p] = "returned" /\ frame[p].cert # NoCert
              /\ certificateNeedsUpdate(args[p].domain, frame[p].cert, now))
             => IssuanceStarted(world[p])

\* C20 amended: the same order, and after a stale buffer was cleared a call
\* whose active certificate needs an update never returns nil: it enters the
\* issuance path, and returns without an issuance step only with the error
\* of a failed set-up step of that path.
C20_StaleThenActiveThenIssuePath ==
    \A p \in Procs :
        /\ ChecksInOrder(p)
        /\ (StaleBufferSeen(p) /\ pc[p] = "returned" /\ frame[p].cert # NoCert
              /\ certificateNeedsUpdate(args[p].domain, frame[p].cert, now))
             => /\ ret[p].kind # "nil"
                /\ PastActiveCheck(p)
                /\ \/ IssuanceStarted(world[p])
                   \/ (ret[p].kind = "error" /\ ret[p].msg \in IssuanceSetupErrors)

\* A clustered, unforced call found the buffer stale, removed it, found the
\* active certificate fresh and returned nil.
C20_Witness ==
    \E p \in Procs :
        /\ StaleBufferSeen(p) /\ pc[p] = "returned"
        /\ world[p].removes = 1 /\ ~clusterCertFile.exists
        /\ frame[p].cert # NoCert
        /\ ~certificateNeedsUpdate(args[p].domain, frame[p].cert, now)
        /\ ret[p] = NilRet

\* The active certificate and key cannot be loaded, or the stored bytes do
\* not parse as a certificate.
ActiveUnusable == ~serverCert.loads \/ serverCert.bytes.form # "pem"

InHTTPFlow(p) ==
    \/ pc[p] \in {"newClient", "registerWithSolver"}
    \/ Registering(p) \/ Issuing(p)
    \/ world[p].keyGens >= 1

\* C22: on the HTTP-01 path every issuance request asks for exactly the
\* requested domain and carries the server's own private key, never the ACME
\* account key, and so does the resource returned; the account key is
\* generated once in each invocation that enters the HTTP-01 flow, and is
\* not generated on the DNS-01 path, when the buffered certificate is
\* returned or when the call returns nil.
C22_OneDomainServerKey ==
    \A p \in Procs :
        /\ (Issuing(p) \/ world[p].obtAttempts >= 1)
             => /\ world[p].obtDomains = {args[p].domain}
                /\ world[p].obtKey = "server.key"
        /\ (pc[p] = "returned" /\ ret[p].kind = "resource" /\ world[p].clients >= 1)
             => ret[p].PrivateKey = "server.key"
        /\ world[p].keyGens <= 1
        /\ InHTTPFlow(p)
             => /\ world[p].keyGens = 1
                /\ args[p].challengeType = "HTTP-01"
                /\ world[p].legoRuns = 0 /\ world[p].mkdirs = 0
        /\ (frame[p].privateKey \/ world[p].clients >= 1
              \/ world[p].regAttempts >= 1) => world[p].keyGens = 1
        /\ (\/ args[p].challengeType = "DNS-01"
            \/ ret[p].kind = "nil"
            \/ FastPathApplied(p)
            \/ frame[p].provider # "unset" \/ world[p].legoRuns >= 1)
             => (world[p].keyGens = 0 /\ ~frame[p].privateKey)

\* An HTTP-01 call for b.example.com generated its account key, registered
\* and was issued a certificate under the server's key.
C22_Witness ==
    \E p \in Procs :
        /\ pc[p] = "returned" /\ ret[p].kind = "resource"
        /\ args[p].domain = "b.example.com"
        /\ world[p].keyGens = 1 /\ world[p].obtAttempts >= 1
        /\ world[p].obtDomains = {"b.example.com"}
        /\ ret[p].PrivateKey = "server.key"

\* C23: within one retry loop exactly one backoff sleep follows each failed
\* attempt that is not rate limited and none follows a successful or rate
\* limited attempt, so a loop sleeps at most 5 times; when all 5 attempts
\* fail, the 5th sleep is taken after the last failed attempt, before the
\* terminal error is returned.
C23_OneSleepPerFailedAttempt ==
    \A p \in Procs :
        /\ world[p].regSleeps <= 5 /\ world[p].obtSleeps <= 5
        /\ pc[p] = "register"
             => (world[p].regSleeps = world[p].regAttempts
                   /\ world[p].regSleeps = frame[p].i)
        /\ pc[p] = "registerSleep"
             => /\ world[p].regSleeps = world[p].regAttempts - 1
                /\ ~frame[p].err.isNil /\ ~IsRateLimited(frame[p].err)
        /\ pc[p] = "registerCheck"
             => world[p].regSleeps =
                  IF frame[p].err.isNil \/ IsRateLimited(frame[p].err)
                    THEN world[p].regAttempts - 1
                    ELSE 5
        /\ frame[p].reg => world[p].regSleeps = world[p].regAttempts - 1
        /\ (pc[p] = "returned" /\ ret[p].kind = "error"
              /\ ret[p].msg = "Failed to register user")
             => IF IsRateLimited(ret[p].cause)
                  THEN world[p].regSleeps = world[p].regAttempts - 1
                  ELSE world[p].regAttempts = 5 /\ world[p].regSleeps = 5
        /\ pc[p] = "obtain"
             => (world[p].obtSleeps = world[p].obtAttempts
                   /\ world[p].obtSleeps = frame[p].i)
        /\ pc[p] = "obtainSleep"
             => /\ world[p].obtSleeps = world[p].obtAttempts - 1
                /\ ~frame[p].err.isNil /\ ~IsRateLimited(frame[p].err)
        /\ pc[p] = "obtainCheck"
             => world[p].obtSleeps =
                  IF frame[p].err.isNil \/ IsRateLimited(frame[p].err)
                    THEN world[p].obtAttempts - 1
                    ELSE 5
        /\ (pc[p] = "returned" /\ world[p].obtAttempts >= 1)
             => IF ret[p].kind = "resource" \/ IsRateLimited(ret[p].cause)
                  THEN world[p].obtSleeps = world[p].obtAttempts - 1
                  ELSE /\ ret[p].msg = "Failed to obtain certificate"
                       /\ world[p].obtAttempts = 5 /\ world[p].obtSleeps = 5

\* All five registration attempts failed; the fifth sleep was taken before
\* the error was returned.
C23_Witness ==
    \E p \in Procs :
        /\ pc[p] = "returned"
        /\ ret[p] = Error("Failed to register user", PlainErr)
        /\ world[p].regAttempts = 5 /\ world[p].regSleeps = 5

\* C24: every invocation eventually returns (a certificate, nil or an
\* error), provided each of its external calls returns, whatever sequence of
\* successes, failures and rate limits the CA produces.
C24_EventuallyReturns ==
    \A p \in Procs : (pc[p] # "idle") ~> (pc[p] = "returned")

\* One invocation went through both loops to the end: registration
\* succeeded on the fifth attempt and all five issuance attempts failed.
C24_Witness ==
    \E p \in Procs :
        /\ pc[p] = "returned"
        /\ world[p].regAttempts = 5 /\ world[p].regSleeps = 4
        /\ world[p].obtAttempts = 5 /\ world[p].obtSleeps = 5
        /\ ret[p].kind = "error"

\* The call has gone past lines 85-87.
PastRemoval(p) ==
    \/ pc[p] \notin {"idle", "checkBuffer", "readClusterCert", "readKey", "keyPair",
                     "parseClusterCert", "evalBuffer", "removeBuffer", "returned"}
    \/ (pc[p] = "returned" /\ ~FastPathApplied(p) /\ ~BufferReadFailed(p))

\* The errors of lines 89-248, which follow the removal.
ErrorsAfterRemoval ==
    SetupErrors \cup {"Failed to run lego command", "Failed to register user",
                      "Failed to obtain certificate"}

\* C25: once a call is past the buffer block, and so whenever it returns
\* without having returned the buffered certificate and without having
\* failed reading the buffer, the buffer file does not exist, given that the
\* removal did not fail: the file is gone before the active certificate is
\* loaded, hence also when the call returns nil, fails to load the active
\* certificate or fails during issuance.  A failed removal does not fail the
\* call: it goes on to the active certificate, and any error it returns is
\* one of the later steps.
C25_BufferGoneAfterFallThrough ==
    \A p \in Procs :
        /\ (PastRemoval(p) /\ ~world[p].removeFailed) => ~clusterCertFile.exists
        /\ (frame[p].certInfo # NoBytes \/ frame[p].cert # NoCert
              \/ ~NoIssuance(world[p]) \/ frame[p].provider # "unset")
             => PastRemoval(p)
        /\ world[p].removeFailed
             => /\ PastRemoval(p)
                /\ clusterCertFile.exists
                /\ (pc[p] = "returned"
                      => \/ ret[p].kind \in {"nil", "resource"}
                         \/ ret[p].msg \in ErrorsAfterRemoval)
                /\ (pc[p] = "returned" /\ frame[p].cert # NoCert
                      /\ SkipRenewal(args[p], frame[p].cert, now))
                     => ret[p] = NilRet

\* A call removed an existing buffer file and then failed to load the
\* active certificate.
C25_Witness ==
    \E p \in Procs :
        /\ pc[p] = "returned"
        /\ world[p].removes = 1 /\ ~world[p].removeFailed
        /\ ~clusterCertFile.exists
        /\ ret[p] = Error("Failed to load certificate and key file", PlainErr)

\* The invocation is at an issuance step: the subprocess, a CA registration
\* or issuance attempt, or the sleep between two attempts.
AttemptingIssuance(p) == pc[p] = "runLego" \/ Registering(p) \/ Issuing(p)

\* Both invocations are attempting issuance at the same time.
BothIssuing ==
    \E p, q \in Procs : p # q /\ AttemptingIssuance(p) /\ AttemptingIssuance(q)

\* Invocation p saw the buffer file exist at line 54 and failed to read it
\* at line 57 because the file was no longer there.
LostBuffer(p) ==
    /\ pc[p] = "returned" /\ world[p].sawBuffer
    /\ ret[p] = Error("Failed reading cluster certificate file", PlainErr)
    /\ ~clusterCertFile.exists

\* C26: there is no mutual exclusion between invocations.  With two
\* concurrent invocations for the same domain both can be attempting
\* issuance at the same time, and one can see the buffer file exist and then
\* fail to read it because the other deleted it in between; neither happens
\* to an invocation during which no other invocation was in flight.
C26_InterferenceOnlyWhenConcurrent ==
    \A p \in Procs :
        /\ (AttemptingIssuance(p) /\ \E q \in Procs \ {p} : AttemptingIssuance(q))
             => world[p].overlapped
        /\ LostBuffer(p) => world[p].overlapped
        /\ ~world[p].overlapped
             => /\ \A q \in Procs \ {p} : ~(InFlight(p) /\ InFlight(q))
                /\ (pc[p] = "returned" /\ world[p].sawBuffer
                      /\ ret[p].msg = "Failed reading cluster certificate file")
                     => clusterCertFile.exists

\* One invocation saw the buffer and lost it to the other, which removed the
\* file and is now attempting issuance.
C26_Witness ==
    \E p, q \in Procs :
        /\ p # q /\ LostBuffer(p)
        /\ world[q].removes = 1 /\ ~world[q].removeFailed
        /\ AttemptingIssuance(q)

\* The other state of C26: both invocations are attempting CA registration
\* at the same time.
C26_BothRegistering ==
    /\ BothIssuing
    /\ \A p \in Procs : pc[p] = "register" /\ world[p].overlapped

====
